---- MODULE Spec2Model ----
(***************************************************************************)
(* Model of the config field analysis of new-horizons-config-crawler       *)
(* (src/analysis.ts): the recursive field extraction over JSON documents,  *)
(* the merge of the extracted fields into one aggregate per config type,   *)
(* the two summaries derived from the aggregate and the driver that runs   *)
(* them over the six config stores of the analysis context; and of the     *)
(* main script that fills the context first (src/cache.ts, src/github.ts): *)
(* the load of the local mod cache, then the fetch from GitHub.            *)
(*                                                                         *)
(* Strings that are field paths or object keys are kept as the sequence of *)
(* their dot-separated segments: "a.b" is <<"a","b">>, the empty string is *)
(* <<"">>.  Joining with "." is then concatenation, so two different key   *)
(* chains that give the same path string give the same path here.          *)
(***************************************************************************)
EXTENDS Integers, Sequences, FiniteSets, TLC

(***************************************************************************)
(* Bounds of the model.                                                    *)
(***************************************************************************)
MaxObjLen == 2
MaxArrLen == 3

(***************************************************************************)
(* JSON values, as JSON5.parse returns them.                               *)
(***************************************************************************)
Null == <<"null">>
Num(n) == <<"number", n>>
StrV(s) == <<"string", s>>
Bool(b) == <<"boolean", b>>
Arr(items) == <<"array", items>>
Obj(entries) == <<"object", entries>>

IsNull(v) == v[1] = "null"
IsArray(v) == v[1] = "array"
\* typeof v === 'object' for a non-null value: arrays and plain objects
IsTypeofObject(v) == v[1] \in {"array", "object"}

\* a check for undefined only: every parsed document passes
TruthyDefined(v) == TRUE

\* JavaScript truthiness of a parsed document
Truthy(v) ==
    CASE v[1] = "null" -> FALSE
      [] v[1] = "number" -> v[2] # 0
      [] v[1] = "string" -> v[2] # ""
      [] v[1] = "boolean" -> v[2]
      [] OTHER -> TRUE

RECURSIVE JoinComma(_)
\* String(value), the string form under which a value is stored
RECURSIVE String(_)
String(v) ==
    CASE v[1] = "null" -> "null"
      [] v[1] = "number" -> ToString(v[2])
      [] v[1] = "string" -> v[2]
      [] v[1] = "boolean" -> (IF v[2] THEN "true" ELSE "false")
      [] v[1] = "array" -> JoinComma(v[2])
      [] OTHER -> "[object Object]"

\* Array.prototype.join(","): null elements give the empty string
JoinComma(items) ==
    IF items = <<>> THEN ""
    ELSE LET first == IF IsNull(Head(items)) THEN "" ELSE String(Head(items))
         IN IF Len(items) = 1 THEN first
            ELSE first \o "," \o JoinComma(Tail(items))

(***************************************************************************)
(* Paths.                                                                  *)
(***************************************************************************)
EmptyPath == <<"">>
RootKey == <<"[root]">>
SettingsPath == <<"settings">>
SettingName == <<"{settingName}">>

\* the join without the test of fieldPath: ".key" at the root
JoinPathAlways(fieldPath, key) == fieldPath \o key

\* `${fieldPath}.${key}` when fieldPath is truthy, otherwise key
JoinPath(fieldPath, key) == IF fieldPath # EmptyPath THEN fieldPath \o key ELSE key

\* fieldPath || '[root]'
PathKey(fieldPath) == IF fieldPath # EmptyPath THEN fieldPath ELSE RootKey

(***************************************************************************)
(* Map<K, V> with its insertion order: a sequence of [key, val] records    *)
(* with distinct keys.                                                     *)
(***************************************************************************)
EmptyMap == <<>>
MapKeys(m) == {m[i].key : i \in DOMAIN m}
MapHas(m, k) == \E i \in DOMAIN m : m[i].key = k
MapGet(m, k) == m[CHOOSE i \in DOMAIN m : m[i].key = k].val
\* Map.set: an existing key keeps its position, a new key goes last
MapSet(m, k, v) ==
    IF MapHas(m, k)
    THEN [i \in DOMAIN m |-> IF m[i].key = k THEN [key |-> k, val |-> v] ELSE m[i]]
    ELSE Append(m, [key |-> k, val |-> v])

\* a fresh FieldAnalysis literal
NewFieldAnalysis(values, fieldType) ==
    [modValues |-> EmptyMap, distinctValues |-> values, fieldType |-> fieldType]

(***************************************************************************)
(* extractFieldsFromJson                                                   *)
(***************************************************************************)
\* for (const [nestedKey, analysis] of nestedFields) fieldsMap.set(nestedKey, analysis)
RECURSIVE SetAll(_, _)
SetAll(fieldsMap, nestedFields) ==
    IF nestedFields = <<>> THEN fieldsMap
    ELSE SetAll(MapSet(fieldsMap, Head(nestedFields).key, Head(nestedFields).val),
                Tail(nestedFields))

\* the element's analysis set in place of the merged one: the last element wins
RECURSIVE MergeItemFieldsOverwrite(_, _)
MergeItemFieldsOverwrite(mergedFields, itemFields) ==
    IF itemFields = <<>> THEN mergedFields
    ELSE MergeItemFieldsOverwrite(MapSet(mergedFields, Head(itemFields).key,
                                         Head(itemFields).val),
                                  Tail(itemFields))

\* the merge of one array element's fields into mergedFields
RECURSIVE MergeItemFields(_, _)
MergeItemFields(mergedFields, itemFields) ==
    IF itemFields = <<>> THEN mergedFields
    ELSE LET key == Head(itemFields).key
             analysis == Head(itemFields).val
             created == IF MapHas(mergedFields, key) THEN mergedFields
                        ELSE MapSet(mergedFields, key,
                                    NewFieldAnalysis({}, analysis.fieldType))
             merged == MapGet(created, key)
             updated == [merged EXCEPT !.distinctValues = @ \cup analysis.distinctValues]
         IN MergeItemFields(MapSet(created, key, updated), Tail(itemFields))

\* the re-keying of the merged element fields under the array's path
RECURSIVE AddPrefixed(_, _, _)
AddPrefixed(fieldsMap, mergedFields, fieldPath) ==
    IF mergedFields = <<>> THEN fieldsMap
    ELSE AddPrefixed(MapSet(fieldsMap, JoinPath(fieldPath, Head(mergedFields).key),
                            Head(mergedFields).val),
                     Tail(mergedFields), fieldPath)

\* the string forms of all the array's elements, "null" for a null
ArrayItemValuesWithNull(items) == {String(items[i]) : i \in DOMAIN items}

\* the string forms of the array's elements that are not null
ArrayItemValues(items) == {String(items[i]) : i \in {j \in DOMAIN items : ~IsNull(items[j])}}

\* the child path of a key, with the default-config settings rule
NewPath(fieldPath, key, configTypeName) ==
    IF fieldPath = SettingsPath /\ configTypeName = "default-config"
    THEN fieldPath \o SettingName
    ELSE JoinPath(fieldPath, key)

RECURSIVE extractFieldsFromJson(_, _, _)
RECURSIVE MergeArrayItems(_, _, _)
RECURSIVE ExtractEntries(_, _, _, _)

\* the loop over the array's elements: only plain objects are extracted
MergeArrayItems(mergedFields, items, configTypeName) ==
    IF items = <<>> THEN mergedFields
    ELSE LET item == Head(items)
             next == IF item[1] = "object"
                     THEN MergeItemFields(mergedFields,
                              extractFieldsFromJson(item, configTypeName, EmptyPath))
                     ELSE mergedFields
         IN MergeArrayItems(next, Tail(items), configTypeName)

\* the loop with the null values of keys passed over, as a null input is
RECURSIVE ExtractEntriesSkipNull(_, _, _, _)
ExtractEntriesSkipNull(fieldsMap, entries, configTypeName, fieldPath) ==
    IF entries = <<>> THEN fieldsMap
    ELSE LET key == Head(entries)[1]
             value == Head(entries)[2]
             newPath == NewPath(fieldPath, key, configTypeName)
             next == IF IsNull(value)
                     THEN fieldsMap
                     ELSE IF IsTypeofObject(value)
                     THEN SetAll(fieldsMap,
                                 extractFieldsFromJson(value, configTypeName, newPath))
                     ELSE MapSet(fieldsMap, newPath,
                                 NewFieldAnalysis({String(value)}, "primitive"))
         IN ExtractEntriesSkipNull(next, Tail(entries), configTypeName, fieldPath)

\* the loop over Object.entries(obj)
ExtractEntries(fieldsMap, entries, configTypeName, fieldPath) ==
    IF entries = <<>> THEN fieldsMap
    ELSE LET key == Head(entries)[1]
             value == Head(entries)[2]
             newPath == NewPath(fieldPath, key, configTypeName)
             next == IF IsNull(value)
                     THEN MapSet(fieldsMap, newPath, NewFieldAnalysis({"null"}, "primitive"))
                     ELSE IF IsTypeofObject(value)
                     THEN SetAll(fieldsMap,
                                 extractFieldsFromJson(value, configTypeName, newPath))
                     ELSE MapSet(fieldsMap, newPath,
                                 NewFieldAnalysis({String(value)}, "primitive"))
         IN ExtractEntries(next, Tail(entries), configTypeName, fieldPath)

extractFieldsFromJson(obj, configTypeName, fieldPath) ==
    IF IsNull(obj) THEN EmptyMap
    ELSE IF ~IsTypeofObject(obj)
    THEN MapSet(EmptyMap, PathKey(fieldPath), NewFieldAnalysis({String(obj)}, "primitive"))
    ELSE IF IsArray(obj)
    THEN LET items == obj[2]
             hasObjects == \E i \in DOMAIN items : IsTypeofObject(items[i])
             hasPrimitives == \E i \in DOMAIN items : ~IsTypeofObject(items[i])
             afterObjects ==
                 IF hasObjects /\ Len(items) > 0
                 THEN AddPrefixed(EmptyMap,
                                  MergeArrayItems(EmptyMap, items, configTypeName),
                                  fieldPath)
                 ELSE EmptyMap
             values == ArrayItemValues(items)
         IN IF hasPrimitives /\ Cardinality(values) > 0
            THEN MapSet(afterObjects, PathKey(fieldPath), NewFieldAnalysis(values, "array"))
            ELSE afterObjects
    ELSE ExtractEntries(EmptyMap, obj[2], configTypeName, fieldPath)

(***************************************************************************)
(* The documents the model is run on.                                      *)
(***************************************************************************)
Keys == {<<"a">>, <<"settings">>, <<"settings", "a">>}
ElementKeys == {<<"a">>, <<"settings", "a">>}

SeqsUpTo(S, n) == UNION {[1..k -> S] : k \in 0..n}

InnerLeaves == {Null, Num(1), Num(2)}
Leaves == InnerLeaves \cup {StrV("x"), StrV("1")}
FalsyLeaves == {Null, Num(0), StrV(""), Bool(FALSE)}
RootLeaves == Leaves \cup FalsyLeaves \cup {Bool(TRUE)}

\* objects of at most n entries with distinct keys of K, in every key order
ObjectsOver(K, V, n) ==
    {Obj(e) : e \in {s \in SeqsUpTo(K \X V, n) :
                        \A i, j \in DOMAIN s : i # j => s[i][1] # s[j][1]}}
ArraysOver(V, n) == {Arr(s) : s \in SeqsUpTo(V, n)}

\* the containers nested inside other containers
Small == ObjectsOver(Keys, {Num(1)}, 1) \cup ArraysOver({Num(1)}, 1)
FlatDocs == ObjectsOver(Keys, Leaves, MaxObjLen) \cup ArraysOver(Leaves, MaxArrLen)
NestedObjects == ObjectsOver(Keys, InnerLeaves \cup Small, MaxObjLen)
MixedArrays == ArraysOver(InnerLeaves \cup Small, MaxArrLen)
WrapKeys == {<<"a">>, <<"settings">>}
Wrapped ==
    {Obj(<< <<k, v>> >>) : k \in WrapKeys, v \in NestedObjects \cup MixedArrays}
    \cup {Arr(<<v>>) : v \in NestedObjects}
WrappedTwice == {Obj(<< <<(<<"a">>), Arr(<<v>>)>> >>) : v \in NestedObjects}
\* arrays of one or two flat objects, at the root and under a key
ObjectArrays == ArraysOver(ObjectsOver(ElementKeys, InnerLeaves, MaxObjLen), 2)
KeyedObjectArrays == {Obj(<< <<k, v>> >>) : k \in WrapKeys, v \in ObjectArrays}
Docs == RootLeaves \cup FlatDocs \cup NestedObjects \cup MixedArrays
            \cup Wrapped \cup WrappedTwice \cup ObjectArrays \cup KeyedObjectArrays

ConfigTypes == <<"manifest", "title-screen", "addon-manifest", "default-config",
                 "planets", "systems">>
ConfigTypeNames == {ConfigTypes[i] : i \in DOMAIN ConfigTypes}
\* the config type names the extraction on its own is run under
ExtractTypeNames == {"default-config", "manifest", "planets"}

(***************************************************************************)
(* mergeFieldAnalysis and the loop body that calls it.                     *)
(***************************************************************************)
\* the values added to the mod's set only
mergeFieldAnalysisModOnly(combinedAnalysis, modAnalysis, modName) ==
    LET withMod == IF MapHas(combinedAnalysis.modValues, modName)
                   THEN combinedAnalysis.modValues
                   ELSE MapSet(combinedAnalysis.modValues, modName, {})
        modValues == MapGet(withMod, modName) \cup modAnalysis.distinctValues
    IN [combinedAnalysis EXCEPT !.modValues = MapSet(withMod, modName, modValues)]

\* the mod's set created anew on every call
mergeFieldAnalysisNewSet(combinedAnalysis, modAnalysis, modName) ==
    [combinedAnalysis EXCEPT
        !.modValues = MapSet(@, modName, modAnalysis.distinctValues),
        !.distinctValues = @ \cup modAnalysis.distinctValues]

\* the kind taken from every merged analysis: the last kind wins
mergeFieldAnalysisLastKind(combinedAnalysis, modAnalysis, modName) ==
    LET withMod == IF MapHas(combinedAnalysis.modValues, modName)
                   THEN combinedAnalysis.modValues
                   ELSE MapSet(combinedAnalysis.modValues, modName, {})
        modValues == MapGet(withMod, modName) \cup modAnalysis.distinctValues
    IN [combinedAnalysis EXCEPT
           !.modValues = MapSet(withMod, modName, modValues),
           !.distinctValues = @ \cup modAnalysis.distinctValues,
           !.fieldType = modAnalysis.fieldType]

\* the mod's set created but the values added to distinctValues only
mergeFieldAnalysisDistinctOnly(combinedAnalysis, modAnalysis, modName) ==
    LET withMod == IF MapHas(combinedAnalysis.modValues, modName)
                   THEN combinedAnalysis.modValues
                   ELSE MapSet(combinedAnalysis.modValues, modName, {})
    IN [combinedAnalysis EXCEPT
           !.modValues = withMod,
           !.distinctValues = @ \cup modAnalysis.distinctValues]

\* the values added to the set of every mod recorded for the field
mergeFieldAnalysisAllMods(combinedAnalysis, modAnalysis, modName) ==
    LET withMod == IF MapHas(combinedAnalysis.modValues, modName)
                   THEN combinedAnalysis.modValues
                   ELSE MapSet(combinedAnalysis.modValues, modName, {})
    IN [combinedAnalysis EXCEPT
           !.modValues = [i \in DOMAIN withMod |->
                             [key |-> withMod[i].key,
                              val |-> withMod[i].val \cup modAnalysis.distinctValues]],
           !.distinctValues = @ \cup modAnalysis.distinctValues]

\* mergeFieldAnalysis(combinedAnalysis, modAnalysis, modName): the combined
\* analysis after the call
mergeFieldAnalysis(combinedAnalysis, modAnalysis, modName) ==
    LET withMod == IF MapHas(combinedAnalysis.modValues, modName)
                   THEN combinedAnalysis.modValues
                   ELSE MapSet(combinedAnalysis.modValues, modName, {})
        modValues == MapGet(withMod, modName) \cup modAnalysis.distinctValues
    IN [combinedAnalysis EXCEPT
           !.modValues = MapSet(withMod, modName, modValues),
           !.distinctValues = @ \cup modAnalysis.distinctValues]

\* the field's analysis made anew on every merge, no test of has(fieldPath)
MergeExtractedFieldFresh(fam, fieldPath, analysis, modName) ==
    MapSet(fam, fieldPath,
           mergeFieldAnalysis(NewFieldAnalysis({}, analysis.fieldType), analysis, modName))

\* one iteration of `for (const [fieldPath, analysis] of modFields)`
MergeExtractedField(fam, fieldPath, analysis, modName) ==
    LET created == IF MapHas(fam, fieldPath) THEN fam
                   ELSE MapSet(fam, fieldPath, NewFieldAnalysis({}, analysis.fieldType))
    IN MapSet(created, fieldPath,
              mergeFieldAnalysis(MapGet(created, fieldPath), analysis, modName))

(***************************************************************************)
(* The orders of the sorts.  sort() without a comparator orders strings by *)
(* code units; localeCompare orders the segments below as listed, and a    *)
(* path before its extensions since "." collates before the characters of  *)
(* every segment.                                                          *)
(***************************************************************************)
CodeUnitOrder == <<"", "0", "1", "1,2", "1.0.0", "2", "2,1", "2.0.0", "[object Object]",
                   "false", "null", "true", "x">>
SegmentOrder == <<"", "[root]", "{settingName}", "a", "settings", "version">>
ModOrder == <<"Alek.OWML", "xen.NewHorizons">>

RankIn(order, x) == CHOOSE i \in DOMAIN order : order[i] = x

\* a < b for the default sort of strings
ValueLess(a, b) == RankIn(CodeUnitOrder, a) < RankIn(CodeUnitOrder, b)
\* a.localeCompare(b) < 0 for mod names
ModLess(a, b) == RankIn(ModOrder, a) < RankIn(ModOrder, b)
\* a.localeCompare(b) < 0 for field paths
RECURSIVE PathLess(_, _)
PathLess(a, b) ==
    IF a = <<>> THEN b # <<>>
    ELSE IF b = <<>> THEN FALSE
    ELSE IF Head(a) = Head(b) THEN PathLess(Tail(a), Tail(b))
    ELSE RankIn(SegmentOrder, Head(a)) < RankIn(SegmentOrder, Head(b))

\* Array.from(values).sort()
RECURSIVE SortValues(_)
SortValues(values) ==
    IF values = {} THEN <<>>
    ELSE LET least == CHOOSE v \in values : \A w \in values : w = v \/ ValueLess(v, w)
         IN <<least>> \o SortValues(values \ {least})

\* the comparators of the two row sorts: by fieldPath, by modName
RowLess(by, a, b) ==
    IF by = "fieldPath" THEN PathLess(a.fieldPath, b.fieldPath)
    ELSE ModLess(a.modName, b.modName)

\* where a stable sort puts row x among rows already sorted
RECURSIVE InsertRow(_, _, _)
InsertRow(sorted, x, by) ==
    IF sorted = <<>> THEN <<x>>
    ELSE IF RowLess(by, x, Head(sorted)) THEN <<x>> \o sorted
    ELSE <<Head(sorted)>> \o InsertRow(Tail(sorted), x, by)

\* the rows left in the order they were pushed
SortRowsNone(rows, by) == rows

\* rows.sort(comparator), a stable sort
RECURSIVE SortRows(_, _)
SortRows(rows, by) ==
    IF rows = <<>> THEN <<>>
    ELSE InsertRow(SortRows(SubSeq(rows, 1, Len(rows) - 1), by), rows[Len(rows)], by)

(***************************************************************************)
(* buildPerModSummaries, buildPerFieldSummaries.  A Record is kept with    *)
(* the order of its keys, which is the order JSON.stringify writes.        *)
(***************************************************************************)
\* the rows one field pushes, mod by mod in the order of its modValues
RECURSIVE PushModRows(_, _, _, _)
PushModRows(perModSummaries, fieldPath, fieldType, modValues) ==
    IF modValues = <<>> THEN perModSummaries
    ELSE LET modName == Head(modValues).key
             started == IF MapHas(perModSummaries, modName) THEN perModSummaries
                        ELSE MapSet(perModSummaries, modName, <<>>)
             row == [fieldPath |-> fieldPath, fieldType |-> fieldType,
                     values |-> SortValues(Head(modValues).val)]
         IN PushModRows(MapSet(started, modName, Append(MapGet(started, modName), row)),
                        fieldPath, fieldType, Tail(modValues))

RECURSIVE PushAllFields(_, _)
PushAllFields(perModSummaries, fieldAnalysisMap) ==
    IF fieldAnalysisMap = <<>> THEN perModSummaries
    ELSE PushAllFields(PushModRows(perModSummaries, Head(fieldAnalysisMap).key,
                                   Head(fieldAnalysisMap).val.fieldType,
                                   Head(fieldAnalysisMap).val.modValues),
                       Tail(fieldAnalysisMap))

buildPerModSummaries(fieldAnalysisMap) ==
    LET pushed == PushAllFields(EmptyMap, fieldAnalysisMap)
    IN [i \in DOMAIN pushed |->
           [key |-> pushed[i].key, val |-> SortRows(pushed[i].val, "fieldPath")]]

\* the per-field summary with the field's distinct values in every mod's row
buildPerFieldSummariesDistinctRows(fieldAnalysisMap) ==
    [i \in DOMAIN fieldAnalysisMap |->
        LET analysis == fieldAnalysisMap[i].val
            mods == [j \in DOMAIN analysis.modValues |->
                        [modName |-> analysis.modValues[j].key,
                         values |-> SortValues(analysis.distinctValues)]]
        IN [key |-> fieldAnalysisMap[i].key,
            val |-> [fieldType |-> analysis.fieldType,
                     mods |-> SortRows(mods, "modName"),
                     distinctValues |-> SortValues(analysis.distinctValues)]]]

buildPerFieldSummaries(fieldAnalysisMap) ==
    [i \in DOMAIN fieldAnalysisMap |->
        LET analysis == fieldAnalysisMap[i].val
            mods == [j \in DOMAIN analysis.modValues |->
                        [modName |-> analysis.modValues[j].key,
                         values |-> SortValues(analysis.modValues[j].val)]]
        IN [key |-> fieldAnalysisMap[i].key,
            val |-> [fieldType |-> analysis.fieldType,
                     mods |-> SortRows(mods, "modName"),
                     distinctValues |-> SortValues(analysis.distinctValues)]]]

\* the two files writeAnalysisSummaries writes for a config type
writeAnalysisSummaries(fieldAnalysisMap) ==
    [written |-> TRUE,
     perModSummary |-> buildPerModSummaries(fieldAnalysisMap),
     perFieldSummary |-> buildPerFieldSummaries(fieldAnalysisMap)]

(***************************************************************************)
(* The analysis context the driver is run on.                              *)
(***************************************************************************)
Mods == {"Alek.OWML", "xen.NewHorizons"}
PlanetFiles == {"planets/a.json", "planets/sub/b.json"}
SingleTypes == {"manifest", "title-screen", "addon-manifest", "default-config"}
MultiTypes == {"planets", "systems"}

DriverValues == {Null, Num(1), Num(2), Arr(<<Num(2)>>), Arr(<<Num(2), Num(1)>>),
                 Arr(<<Null>>), Obj(<< <<(<<"a">>), Num(1)>> >>)}
DriverDocs ==
    {Null, Num(0), Bool(FALSE), Obj(<<>>)}
    \cup {Obj(<< <<(<<"a">>), v>> >>) : v \in DriverValues}
    \cup {Obj(<< <<(<<"settings">>), Obj(<< <<(<<"a">>), v>> >>)>> >>) : v \in {Num(1), Num(2)}}
    \cup {Obj(<< <<(<<"settings">>), Obj(<< <<(<<"a">>), Num(1)>>, <<(<<"settings">>), Num(2)>> >>)>> >>)}
    \cup {Obj(<< <<(<<"settings">>), Num(1)>>, <<(<<"a">>), Num(2)>> >>)}
FileDocs == {Null, Obj(<<>>), Obj(<< <<(<<"a">>), Num(1)>> >>), Obj(<< <<(<<"a">>), Num(2)>> >>),
             Obj(<< <<(<<"a">>), Arr(<<Num(2)>>)>> >>)}

\* the Records of at most two entries with keys of K and values of V, in
\* every insertion order
RecordsOver(K, V) ==
    {<<>>}
    \cup {<<[key |-> k, val |-> v]>> : k \in K, v \in V}
    \cup {<<[key |-> k[1], val |-> v[1]], [key |-> k[2], val |-> v[2]]>> :
             k \in {kk \in K \X K : kk[1] # kk[2]}, v \in V \X V}

SingleStores == RecordsOver(Mods, DriverDocs)
MultiStores == RecordsOver(Mods, RecordsOver(PlanetFiles, FileDocs))

\* the contexts: one config type's store filled, the others empty
Contexts ==
    {[t \in ConfigTypeNames |-> IF t = focus THEN store ELSE <<>>] :
        focus \in SingleTypes, store \in SingleStores}
    \cup {[t \in ConfigTypeNames |-> IF t = focus THEN store ELSE <<>>] :
        focus \in MultiTypes, store \in MultiStores}

(***************************************************************************)
(* The main script: its environment, the mod-cache directory and GitHub.   *)
(* A file of a mod version is named by its directory ("" for the version's *)
(* own directory) and its path below it.                                   *)
(***************************************************************************)
VersionKey == <<"version">>
Manifest(v) == Obj(<< <<VersionKey, StrV(v)>> >>)

\* manifest.version || '0.0.0'
VersionOf(manifest) ==
    LET at == {i \in DOMAIN manifest[2] : manifest[2][i][1] = VersionKey}
    IN IF at # {} /\ Truthy(manifest[2][CHOOSE i \in at : TRUE][2])
       THEN manifest[2][CHOOSE i \in at : TRUE][2][2]
       ELSE "0.0.0"

File(dir, name) == [dir |-> dir, name |-> name]
ManifestFile == File("", "manifest.json")
\* metadataFileConfigs: the file names and the stores they are loaded into
MetadataFileConfigs ==
    <<[name |-> "title-screen.json", store |-> "title-screen"],
      [name |-> "addon-manifest.json", store |-> "addon-manifest"],
      [name |-> "default-config.json", store |-> "default-config"]>>
\* the directories of config files, which are the names of their stores
ConfigDirectories == <<"planets", "systems">>

\* getRelativePathFrom of github.ts: the path from the directory name on
GitHubRelativePath(file) == file.dir \o "/" \o file.name
\* getRelativePathFrom of cache.ts: the path from the "/" before the
\* directory name on
CacheRelativePath(file) == "/" \o file.dir \o "/" \o file.name

\* MOD_ALLOW_LIST: null, or the names listed
NoAllowList == [set |-> FALSE, mods |-> {}]
AllowList(mods) == [set |-> TRUE, mods |-> mods]
Environments ==
    [skipLocalCache : BOOLEAN, localCacheOnly : BOOLEAN,
     allowList : {NoAllowList, AllowList({"Alek.OWML"})}]

\* mods.json in its order
ModDB == <<"Alek.OWML", "xen.NewHorizons">>

\* the repositories a mod of the database may have: none, one without a
\* manifest.json, one of two versions of a mod
NoRepo == [repo |-> FALSE, tree |-> <<>>]
RepoOf(tree) == [repo |-> TRUE, tree |-> tree]
TreeV1 ==
    <<[key |-> ManifestFile, val |-> Manifest("1.0.0")],
      [key |-> File("", "title-screen.json"), val |-> Obj(<< <<(<<"a">>), Num(1)>> >>)],
      [key |-> File("", "default-config.json"),
       val |-> Obj(<< <<(<<"settings">>), Obj(<< <<(<<"a">>), Num(1)>> >>)>> >>)],
      [key |-> File("planets", "a.json"), val |-> Obj(<< <<(<<"a">>), Num(1)>> >>)]>>
TreeV2 ==
    <<[key |-> ManifestFile, val |-> Manifest("2.0.0")],
      [key |-> File("", "addon-manifest.json"), val |-> Null],
      [key |-> File("planets", "sub/b.json"), val |-> Obj(<< <<(<<"a">>), Num(2)>> >>)],
      [key |-> File("systems", "a.json"), val |-> Obj(<< <<(<<"a">>), Arr(<<Num(2)>>)>> >>)]>>
TreeNoManifest == <<[key |-> File("", "README.json"), val |-> Obj(<<>>)]>>
Repos == {NoRepo, RepoOf(TreeNoManifest), RepoOf(TreeV1), RepoOf(TreeV2)}
GitHubs == [Mods -> Repos]

\* the context createAnalysisContext returns
EmptyContext == [t \in ConfigTypeNames |-> <<>>]

\* findSingleGitHubFileByName: is there a file of this name
HasFile(tree, name) == MapHas(tree, File("", name))
\* findFilesInGitHubDirectory
FilesInDirectory(tree, dir) == SelectSeq(tree, LAMBDA e : e.key.dir = dir)

\* the files fetched after the manifest, in the order they are fetched: the
\* metadata files the tree has, the planet configs, the system configs
Downloads(tree) ==
    LET metas == [i \in DOMAIN MetadataFileConfigs |->
                     [file |-> File("", MetadataFileConfigs[i].name),
                      store |-> MetadataFileConfigs[i].store]]
        configs(dir) == LET found == FilesInDirectory(tree, dir)
                        IN [i \in DOMAIN found |-> [file |-> found[i].key, store |-> dir]]
    IN SelectSeq(metas, LAMBDA d : MapHas(tree, d.file))
           \o configs(ConfigDirectories[1]) \o configs(ConfigDirectories[2])

\* writeFile of a file of a mod version
SaveFile(cache, mod, version, file, content) ==
    LET entry == MapGet(cache, mod)
        dir == MapGet(entry.versions, version)
    IN MapSet(cache, mod,
              [entry EXCEPT !.versions = MapSet(@, version, MapSet(dir, file, content))])

\* the manifest written to the new version directory and to the mod's
\* directory as its latest manifest
SaveManifest(cache, mod, manifest) ==
    LET versions == IF MapHas(cache, mod) THEN MapGet(cache, mod).versions ELSE EmptyMap
    IN MapSet(cache, mod,
              [manifest |-> manifest,
               versions |-> MapSet(versions, VersionOf(manifest),
                                   MapSet(EmptyMap, ManifestFile, manifest))])

\* inMemoryStore[modUniqueName] = content, and for a config file
\* configStore[modUniqueName][relativePath] = content
StoreDocument(c, store, mod, content) == [c EXCEPT ![store] = MapSet(@, mod, content)]
StoreConfigFile(c, store, mod, relativePath, content) ==
    LET files == IF MapHas(c[store], mod) THEN MapGet(c[store], mod) ELSE <<>>
    IN [c EXCEPT ![store] = MapSet(@, mod, MapSet(files, relativePath, content))]

\* saveMetadataFile, and the body of the loop of processGitHubConfigFiles
ProcessDownload(st, d, mod, version, tree) ==
    LET content == MapGet(tree, d.file)
    IN [cache |-> SaveFile(st.cache, mod, version, d.file, content),
        ctx |-> IF d.file.dir = ""
                THEN StoreDocument(st.ctx, d.store, mod, content)
                ELSE StoreConfigFile(st.ctx, d.store, mod, GitHubRelativePath(d.file), content)]

RECURSIVE ProcessDownloads(_, _, _, _, _)
ProcessDownloads(st, downloads, mod, version, tree) ==
    IF downloads = <<>> THEN st
    ELSE ProcessDownloads(ProcessDownload(st, Head(downloads), mod, version, tree),
                          Tail(downloads), mod, version, tree)

\* a version of a mod fetched into the cache and the context: the manifest
\* and the first `fetched` of the files after it
FetchVersion(st, mod, tree, fetched) ==
    LET manifest == MapGet(tree, ManifestFile)
        saved == [cache |-> SaveManifest(st.cache, mod, manifest),
                  ctx |-> StoreDocument(st.ctx, "manifest", mod, manifest)]
    IN ProcessDownloads(saved, SubSeq(Downloads(tree), 1, fetched), mod,
                        VersionOf(manifest), tree)

\* the mod-cache directories earlier runs leave: a mod not fetched yet, a
\* mod whose version 1.0.0 was fetched completely, a mod whose fetch of
\* version 1.0.0 failed after the manifest was written
CachedStates == {"absent", "complete", "manifest only"}
CacheOf(states) ==
    LET add(cache, mod) ==
            CASE states[mod] = "absent" -> cache
              [] states[mod] = "complete" ->
                    FetchVersion([cache |-> cache, ctx |-> EmptyContext], mod, TreeV1,
                                 Len(Downloads(TreeV1))).cache
              [] OTHER ->
                    FetchVersion([cache |-> cache, ctx |-> EmptyContext], mod, TreeV1, 0).cache
    IN add(add(EmptyMap, ModDB[1]), ModDB[2])
Caches == {CacheOf(states) : states \in [Mods -> CachedStates]}

(***************************************************************************)
(* State.                                                                  *)
(***************************************************************************)
VARIABLES
    xDoc,       \* extractFieldsFromJson: the document passed in
    xType,      \* extractFieldsFromJson: the config type name passed in
    xFields,    \* extractFieldsFromJson: the map returned
    xDone,      \* extractFieldsFromJson: has returned
    ctx,        \* the AnalysisContext: config type name -> store
    pc,         \* where analyzeModConfigs is
    typeIdx,    \* the config type being analyzed, an index of ConfigTypes
    fieldAnalysisMap,   \* the aggregate of the config type being analyzed
    modIdx,     \* the entry of Object.entries(configStore) the loop is at
    fileIdx,    \* the entry of Object.entries(configFiles) the loop is at
    modFields,  \* the extracted fields not merged yet
    persisted,  \* config type name -> the summary files of the config type
    report,     \* index.html: the config types it shows
    unreadable, \* the config types whose per-field summary the report failed to load
    env,        \* process.env: SKIP_LOCAL_CACHE, LOCAL_CACHE_ONLY, MOD_ALLOW_LIST
    modCache,   \* the mod-cache directory: mod -> latest manifest, version directories
    github,     \* mods.json and the repositories: mod -> repo, files
    pcMain,     \* where the main script is
    cacheIdx,   \* the entry of readdir(modCacheRootDir) loadModsFromCache is at
    dbIdx,      \* the entry of modDB.mods fetchAndLoadModsFromGitHub is at
    log         \* what the fetch wrote to the console about which mod

xvars == <<xDoc, xType, xFields, xDone>>
dvars == <<ctx, pc, typeIdx, fieldAnalysisMap, modIdx, fileIdx, modFields, persisted, report,
           unreadable>>
pvars == <<env, modCache, github, pcMain, cacheIdx, dbIdx, log>>
vars == <<xDoc, xType, xFields, xDone, ctx, pc, typeIdx, fieldAnalysisMap, modIdx,
          fileIdx, modFields, persisted, report, unreadable, env, modCache, github,
          pcMain, cacheIdx, dbIdx, log>>

\* summary files, a report, not written
NoSummaries == [written |-> FALSE, perModSummary |-> <<>>, perFieldSummary |-> <<>>]
NoReport == [written |-> FALSE, configTypes |-> {}]

\* the per-field summaries whose readFile or JSON.parse throws
ReadFailures == {{}, {"manifest"}, {"planets", "systems"}, ConfigTypeNames}
\* the keys of configTypeData: the config types whose summary is loaded
LoadedSummaries(files, failed) == {t \in ConfigTypeNames : files[t].written /\ t \notin failed}

\* the driver before analyzeModConfigs is called
DriverIdle ==
    /\ pc = "begin"
    /\ typeIdx = 1
    /\ fieldAnalysisMap = EmptyMap
    /\ modIdx = 1
    /\ fileIdx = 1
    /\ modFields = EmptyMap
    /\ persisted = [t \in ConfigTypeNames |-> NoSummaries]
    /\ report = NoReport
    /\ unreadable = {}

\* the main script at its call of analyzeModConfigs
MainAtAnalysis ==
    /\ env = [skipLocalCache |-> FALSE, localCacheOnly |-> FALSE, allowList |-> NoAllowList]
    /\ modCache = EmptyMap
    /\ github = [m \in Mods |-> NoRepo]
    /\ pcMain = "analysis"
    /\ cacheIdx = 1
    /\ dbIdx = 1
    /\ log = {}

ExtractIdle ==
    /\ xDoc = Null
    /\ xType = "manifest"
    /\ xFields = EmptyMap
    /\ xDone = TRUE

(***************************************************************************)
(* The extraction on its own: one call on one document.                    *)
(***************************************************************************)
InitExtract ==
    /\ xDoc \in Docs
    /\ xType \in ExtractTypeNames
    /\ xFields = EmptyMap
    /\ xDone = FALSE
    /\ ctx = EmptyContext
    /\ DriverIdle
    /\ MainAtAnalysis

Extract ==
    /\ ~xDone
    /\ xFields' = extractFieldsFromJson(xDoc, xType, EmptyPath)
    /\ xDone' = TRUE
    /\ UNCHANGED <<xDoc, xType>>
    /\ UNCHANGED dvars
    /\ UNCHANGED pvars

NextExtract == Extract

SpecExtract == InitExtract /\ [][NextExtract]_vars

(***************************************************************************)
(* analyzeModConfigs: the six config types in turn, then the report.       *)
(***************************************************************************)
configTypeName == ConfigTypes[typeIdx]
configStore == ctx[configTypeName]
IsMulti == configTypeName \in MultiTypes
\* the document the loops are at
configFiles == configStore[modIdx].val
configData == IF IsMulti THEN configFiles[fileIdx].val ELSE configStore[modIdx].val
modName == configStore[modIdx].key

Init ==
    /\ ctx \in Contexts
    /\ DriverIdle
    /\ ExtractIdle
    /\ MainAtAnalysis

\* a config type's analysis starts with an empty aggregate
BeginConfigType ==
    /\ pcMain = "analysis"
    /\ pc = "begin"
    /\ fieldAnalysisMap' = EmptyMap
    /\ modIdx' = 1
    /\ fileIdx' = 1
    /\ modFields' = EmptyMap
    /\ pc' = "mods"
    /\ UNCHANGED <<ctx, typeIdx, persisted, report, unreadable>>
    /\ UNCHANGED xvars
    /\ UNCHANGED pvars

\* if (!configData) continue, of either loop
SkipDocument ==
    /\ pc = IF IsMulti THEN "files" ELSE "mods"
    /\ modIdx <= Len(configStore)
    /\ IsMulti => fileIdx <= Len(configFiles)
    /\ ~Truthy(configData)
    /\ IF IsMulti THEN fileIdx' = fileIdx + 1 /\ modIdx' = modIdx
                  ELSE modIdx' = modIdx + 1 /\ fileIdx' = fileIdx
    /\ UNCHANGED <<ctx, pc, typeIdx, fieldAnalysisMap, modFields, persisted, report, unreadable>>
    /\ UNCHANGED xvars
    /\ UNCHANGED pvars

\* a mod of a multi-document type: the loop over its files starts
EnterModFiles ==
    /\ pc = "mods"
    /\ IsMulti
    /\ modIdx <= Len(configStore)
    /\ fileIdx' = 1
    /\ pc' = "files"
    /\ UNCHANGED <<ctx, typeIdx, fieldAnalysisMap, modIdx, modFields, persisted, report, unreadable>>
    /\ UNCHANGED xvars
    /\ UNCHANGED pvars

\* the files of the mod are done
LeaveModFiles ==
    /\ pc = "files"
    /\ fileIdx > Len(configFiles)
    /\ modIdx' = modIdx + 1
    /\ pc' = "mods"
    /\ UNCHANGED <<ctx, typeIdx, fieldAnalysisMap, fileIdx, modFields, persisted, report, unreadable>>
    /\ UNCHANGED xvars
    /\ UNCHANGED pvars

\* const modFields = extractFieldsFromJson(configData, configTypeName)
ExtractDocument ==
    /\ pc = IF IsMulti THEN "files" ELSE "mods"
    /\ modIdx <= Len(configStore)
    /\ IsMulti => fileIdx <= Len(configFiles)
    /\ Truthy(configData)
    /\ modFields' = extractFieldsFromJson(configData, configTypeName, EmptyPath)
    /\ pc' = "fields"
    /\ UNCHANGED <<ctx, typeIdx, fieldAnalysisMap, modIdx, fileIdx, persisted, report, unreadable>>
    /\ UNCHANGED xvars
    /\ UNCHANGED pvars

\* one extracted field is merged into the aggregate
MergeField ==
    /\ pc = "fields"
    /\ modFields # <<>>
    /\ fieldAnalysisMap' = MergeExtractedField(fieldAnalysisMap, Head(modFields).key,
                                               Head(modFields).val, modName)
    /\ modFields' = Tail(modFields)
    /\ UNCHANGED <<ctx, pc, typeIdx, modIdx, fileIdx, persisted, report, unreadable>>
    /\ UNCHANGED xvars
    /\ UNCHANGED pvars

\* the fields of the document are merged: on to the next document
EndDocument ==
    /\ pc = "fields"
    /\ modFields = <<>>
    /\ IF IsMulti THEN fileIdx' = fileIdx + 1 /\ modIdx' = modIdx /\ pc' = "files"
                  ELSE modIdx' = modIdx + 1 /\ fileIdx' = fileIdx /\ pc' = "mods"
    /\ UNCHANGED <<ctx, typeIdx, fieldAnalysisMap, modFields, persisted, report, unreadable>>
    /\ UNCHANGED xvars
    /\ UNCHANGED pvars

\* the summaries written at any turn of the loop over the mods
WriteSummariesEarly ==
    /\ pc = "mods"
    /\ persisted' = [persisted EXCEPT ![configTypeName] = writeAnalysisSummaries(fieldAnalysisMap)]
    /\ IF typeIdx < Len(ConfigTypes)
       THEN typeIdx' = typeIdx + 1 /\ pc' = "begin"
       ELSE typeIdx' = typeIdx /\ pc' = "report"
    /\ UNCHANGED <<ctx, fieldAnalysisMap, modIdx, fileIdx, modFields, report, unreadable>>
    /\ UNCHANGED xvars
    /\ UNCHANGED pvars

\* await writeAnalysisSummaries(...), then the next config type or the report
WriteSummaries ==
    /\ pc = "mods"
    /\ modIdx > Len(configStore)
    /\ persisted' = [persisted EXCEPT ![configTypeName] = writeAnalysisSummaries(fieldAnalysisMap)]
    /\ IF typeIdx < Len(ConfigTypes)
       THEN typeIdx' = typeIdx + 1 /\ pc' = "begin"
       ELSE typeIdx' = typeIdx /\ pc' = "report"
    /\ UNCHANGED <<ctx, fieldAnalysisMap, modIdx, fileIdx, modFields, report, unreadable>>
    /\ UNCHANGED xvars
    /\ UNCHANGED pvars

\* the report not written when a summary fails to load
GenerateHtmlReportStrict ==
    /\ pc = "report"
    /\ \E failed \in ReadFailures :
          /\ unreadable' = failed
          /\ report' = IF LoadedSummaries(persisted, failed) = ConfigTypeNames
                       THEN [written |-> TRUE, configTypes |-> ConfigTypeNames]
                       ELSE NoReport
    /\ pc' = "done"
    /\ UNCHANGED <<ctx, typeIdx, fieldAnalysisMap, modIdx, fileIdx, modFields, persisted>>
    /\ UNCHANGED xvars
    /\ UNCHANGED pvars

\* generateHtmlReport: the per-field summaries that load go into index.html
GenerateHtmlReport ==
    /\ pc = "report"
    /\ \E failed \in ReadFailures :
          /\ unreadable' = failed
          /\ report' = [written |-> TRUE,
                        configTypes |-> LoadedSummaries(persisted, failed)]
    /\ pc' = "done"
    /\ UNCHANGED <<ctx, typeIdx, fieldAnalysisMap, modIdx, fileIdx, modFields, persisted>>
    /\ UNCHANGED xvars
    /\ UNCHANGED pvars

Next ==
    \/ BeginConfigType
    \/ SkipDocument
    \/ EnterModFiles
    \/ LeaveModFiles
    \/ ExtractDocument
    \/ MergeField
    \/ EndDocument
    \/ WriteSummaries
    \/ GenerateHtmlReport

Spec == Init /\ [][Next]_vars

(***************************************************************************)
(* The main script: the cache load, the GitHub fetch, then the analysis.   *)
(***************************************************************************)
\* the variables of the analysis the loaders leave alone
avars == <<pc, typeIdx, fieldAnalysisMap, modIdx, fileIdx, modFields, persisted, report,
           unreadable>>

\* the cache loaded whatever SKIP_LOCAL_CACHE is
RunsCacheLoadAlways(e) == TRUE

\* if (!SKIP_LOCAL_CACHE), if (!LOCAL_CACHE_ONLY)
RunsCacheLoad(e) == ~e.skipLocalCache
RunsGitHubFetch(e) == ~e.localCacheOnly

\* every mod fetched, listed or not
IsAllowedAlways(e, mod) == TRUE

\* !(MOD_ALLOW_LIST && !MOD_ALLOW_LIST.includes(mod.uniqueName))
IsAllowed(e, mod) == ~e.allowList.set \/ mod \in e.allowList.mods

\* readdir(modCacheRootDir): the cached mods by name
ReadDir(cache) == SelectSeq(ModOrder, LAMBDA m : MapHas(cache, m))

\* exists(modCacheDir)
Exists(cache, mod, version) ==
    MapHas(cache, mod) /\ MapHas(MapGet(cache, mod).versions, version)

\* loadMetadataFile for the three metadata files
RECURSIVE LoadMetadataFiles(_, _, _, _)
LoadMetadataFiles(c, dir, mod, configs) ==
    IF configs = <<>> THEN c
    ELSE LET file == File("", Head(configs).name)
             next == IF MapHas(dir, file)
                     THEN StoreDocument(c, Head(configs).store, mod, MapGet(dir, file))
                     ELSE c
         IN LoadMetadataFiles(next, dir, mod, Tail(configs))

\* loadLocalConfigDirectory: the mod's entry set to {} and then filled
LoadLocalConfigDirectory(c, dir, directoryName, mod) ==
    LET files == FilesInDirectory(dir, directoryName)
    IN [c EXCEPT ![directoryName] =
           MapSet(@, mod, [i \in DOMAIN files |->
                              [key |-> CacheRelativePath(files[i].key), val |-> files[i].val]])]

\* the body of the loop of loadModsFromCache
LoadCachedMod(st, mod) ==
    LET entry == MapGet(st.cache, mod)
        manifest == entry.manifest
        version == VersionOf(manifest)
        \* mkdir(modDir, { recursive: true })
        versions == IF MapHas(entry.versions, version) THEN entry.versions
                    ELSE MapSet(entry.versions, version, EmptyMap)
        dir == MapGet(versions, version)
        withManifest == StoreDocument(st.ctx, "manifest", mod, manifest)
        withMetadata == LoadMetadataFiles(withManifest, dir, mod, MetadataFileConfigs)
        withPlanets == LoadLocalConfigDirectory(withMetadata, dir, ConfigDirectories[1], mod)
    IN [cache |-> MapSet(st.cache, mod, [entry EXCEPT !.versions = versions]),
        ctx |-> LoadLocalConfigDirectory(withPlanets, dir, ConfigDirectories[2], mod)]

\* the body of the loop of fetchAndLoadModsFromGitHub; fetched is the number
\* of files fetched after the manifest before a request fails, -1 when a
\* request up to the manifest's fails
FetchMod(st, e, mod, repo, fetched) ==
    IF ~IsAllowed(e, mod) THEN st
    ELSE IF ~repo.repo THEN st
    ELSE IF fetched = -1 THEN st
    ELSE IF ~HasFile(repo.tree, ManifestFile.name) THEN st
    ELSE IF Exists(st.cache, mod, VersionOf(MapGet(repo.tree, ManifestFile))) THEN st
    ELSE FetchVersion(st, mod, repo.tree, fetched)

\* the lines the loop body writes to the console, as (mod, message)
Logged(mod, message) == {[mod |-> mod, message |-> message]}
FetchLog(st, e, mod, repo, fetched) ==
    IF ~IsAllowed(e, mod) THEN {}
    ELSE IF ~repo.repo THEN Logged(mod, "Skipping mod with no repo")
    ELSE IF fetched = -1 THEN Logged(mod, "Error processing mod")
    ELSE IF ~HasFile(repo.tree, ManifestFile.name) THEN Logged(mod, "No manifest.json file found")
    ELSE IF Exists(st.cache, mod, VersionOf(MapGet(repo.tree, ManifestFile)))
    THEN Logged(mod, "is already cached, skipping")
    ELSE IF fetched < Len(Downloads(repo.tree)) THEN Logged(mod, "Error processing mod")
    ELSE {}

InitMain ==
    /\ env \in Environments
    /\ modCache \in Caches
    /\ github \in GitHubs
    /\ ctx = EmptyContext
    /\ pcMain = "start"
    /\ cacheIdx = 1
    /\ dbIdx = 1
    /\ log = {}
    /\ DriverIdle
    /\ ExtractIdle

\* await loadModsFromCache(ctx) is entered
BeginCacheLoad ==
    /\ pcMain = "start"
    /\ RunsCacheLoad(env)
    /\ pcMain' = "cache"
    /\ cacheIdx' = 1
    /\ UNCHANGED <<ctx, env, modCache, github, dbIdx, log>>
    /\ UNCHANGED avars
    /\ UNCHANGED xvars

\* SKIP_LOCAL_CACHE: the cache is not loaded
SkipCacheLoad ==
    /\ pcMain = "start"
    /\ ~RunsCacheLoad(env)
    /\ pcMain' = "loaded"
    /\ UNCHANGED <<ctx, env, modCache, github, cacheIdx, dbIdx, log>>
    /\ UNCHANGED avars
    /\ UNCHANGED xvars

\* one cached mod is loaded into the context
LoadMod ==
    /\ pcMain = "cache"
    /\ cacheIdx <= Len(ReadDir(modCache))
    /\ LET next == LoadCachedMod([cache |-> modCache, ctx |-> ctx], ReadDir(modCache)[cacheIdx])
       IN ctx' = next.ctx /\ modCache' = next.cache
    /\ cacheIdx' = cacheIdx + 1
    /\ UNCHANGED <<env, github, pcMain, dbIdx, log>>
    /\ UNCHANGED avars
    /\ UNCHANGED xvars

\* loadModsFromCache returns
EndCacheLoad ==
    /\ pcMain = "cache"
    /\ cacheIdx > Len(ReadDir(modCache))
    /\ pcMain' = "loaded"
    /\ UNCHANGED <<ctx, env, modCache, github, cacheIdx, dbIdx, log>>
    /\ UNCHANGED avars
    /\ UNCHANGED xvars

\* await fetchAndLoadModsFromGitHub(ctx) is entered: mods.json is fetched,
\* and a failure of the request ends the script
BeginGitHubFetch ==
    /\ pcMain = "loaded"
    /\ RunsGitHubFetch(env)
    /\ \E ok \in BOOLEAN : pcMain' = IF ok THEN "github" ELSE "failed"
    /\ dbIdx' = 1
    /\ UNCHANGED <<ctx, env, modCache, github, cacheIdx, log>>
    /\ UNCHANGED avars
    /\ UNCHANGED xvars

\* LOCAL_CACHE_ONLY: nothing is fetched
SkipGitHubFetch ==
    /\ pcMain = "loaded"
    /\ ~RunsGitHubFetch(env)
    /\ pcMain' = "analysis"
    /\ UNCHANGED <<ctx, env, modCache, github, cacheIdx, dbIdx, log>>
    /\ UNCHANGED avars
    /\ UNCHANGED xvars

\* one mod of the database is processed, errors caught
FetchNextMod ==
    /\ pcMain = "github"
    /\ dbIdx <= Len(ModDB)
    /\ \E fetched \in -1..Len(Downloads(github[ModDB[dbIdx]].tree)) :
          LET next == FetchMod([cache |-> modCache, ctx |-> ctx], env, ModDB[dbIdx],
                               github[ModDB[dbIdx]], fetched)
          IN /\ ctx' = next.ctx
             /\ modCache' = next.cache
             /\ log' = log \cup FetchLog([cache |-> modCache, ctx |-> ctx], env,
                                         ModDB[dbIdx], github[ModDB[dbIdx]], fetched)
    /\ dbIdx' = dbIdx + 1
    /\ UNCHANGED <<env, github, pcMain, cacheIdx>>
    /\ UNCHANGED avars
    /\ UNCHANGED xvars

\* fetchAndLoadModsFromGitHub returns
EndGitHubFetch ==
    /\ pcMain = "github"
    /\ dbIdx > Len(ModDB)
    /\ pcMain' = "analysis"
    /\ UNCHANGED <<ctx, env, modCache, github, cacheIdx, dbIdx, log>>
    /\ UNCHANGED avars
    /\ UNCHANGED xvars

NextMain ==
    \/ BeginCacheLoad
    \/ SkipCacheLoad
    \/ LoadMod
    \/ EndCacheLoad
    \/ BeginGitHubFetch
    \/ SkipGitHubFetch
    \/ FetchNextMod
    \/ EndGitHubFetch
    \/ BeginConfigType
    \/ SkipDocument
    \/ EnterModFiles
    \/ LeaveModFiles
    \/ ExtractDocument
    \/ MergeField
    \/ EndDocument
    \/ WriteSummaries
    \/ GenerateHtmlReport

SpecMain == InitMain /\ [][NextMain]_vars

(***************************************************************************)
(* Vocabulary of the properties of the extraction.                         *)
(***************************************************************************)
IsObject(v) == v[1] = "object"
IsLeaf(v) == ~IsTypeofObject(v)
IsScalar(v) == ~IsTypeofObject(v) /\ ~IsNull(v)
EntryKeys(o) == {o[2][i][1] : i \in DOMAIN o[2]}
EntryValue(o, k) == o[2][CHOOSE i \in DOMAIN o[2] : o[2][i][1] = k][2]
Items(a) == {a[2][i] : i \in DOMAIN a[2]}
HasSegment(path, seg) == \E i \in DOMAIN path : path[i] = seg
\* an object with a 'settings' entry that is an object of several leaf values
IsSettingsDoc(d) ==
    /\ IsObject(d)
    /\ SettingsPath \in EntryKeys(d)
    /\ LET st == EntryValue(d, SettingsPath)
       IN /\ IsObject(st)
          /\ Cardinality(EntryKeys(st)) >= 2
          /\ \A k \in EntryKeys(st) : IsLeaf(EntryValue(st, k))
\* an object of one entry whose value is an array
IsKeyedArray(d) == IsObject(d) /\ Len(d[2]) = 1 /\ IsArray(d[2][1][2])
\* a non-empty array whose elements are all plain objects
IsObjectArray(a) == IsArray(a) /\ a[2] # <<>> /\ \A e \in Items(a) : IsObject(e)
\* a plain object whose values are all scalars or null
IsFlatObject(o) == IsObject(o) /\ \A k \in EntryKeys(o) : IsLeaf(EntryValue(o, k))

\* C1: under 'default-config' a document whose 'settings' object has several
\* keys yields one field settings.{settingName} whose values are the string
\* forms of all the settings' values, and no field named after a setting key.
C1SettingsCollapsed ==
    (xDone /\ xType = "default-config" /\ IsSettingsDoc(xDoc)) =>
        LET st == EntryValue(xDoc, SettingsPath)
            bucket == SettingsPath \o SettingName
        IN /\ MapHas(xFields, bucket)
           /\ MapGet(xFields, bucket).distinctValues =
                  {String(EntryValue(st, k)) : k \in EntryKeys(st)}
           /\ \A k \in EntryKeys(st) : ~MapHas(xFields, SettingsPath \o k)

\* C3: an array under key p that mixes scalar, object and null elements yields
\* an entry at p of kind 'array' whose values are the string forms of the
\* scalar elements only, and the flattened fields p.k of its object elements.
C3MixedArray ==
    (/\ xDone
     /\ IsKeyedArray(xDoc)
     /\ \E e \in Items(xDoc[2][1][2]) : IsScalar(e)
     /\ \E e \in Items(xDoc[2][1][2]) : IsObject(e)
     /\ \E e \in Items(xDoc[2][1][2]) : IsNull(e)) =>
        LET p == xDoc[2][1][1]
            elems == Items(xDoc[2][1][2])
        IN /\ MapHas(xFields, p)
           /\ MapGet(xFields, p).fieldType = "array"
           /\ MapGet(xFields, p).distinctValues = {String(e) : e \in {x \in elems : IsScalar(x)}}
           /\ \A e \in {x \in elems : IsFlatObject(x)} : \A k \in EntryKeys(e) :
                 /\ MapHas(xFields, JoinPath(p, k))
                 /\ String(EntryValue(e, k)) \in MapGet(xFields, JoinPath(p, k)).distinctValues

\* the array and its path in a document that is an array or an object of one
\* array entry
ArrayOf(d) == IF IsArray(d) THEN d ELSE d[2][1][2]
ArrayPathOf(d) == IF IsArray(d) THEN EmptyPath ELSE d[2][1][1]

\* C4: an array at path p whose elements are all objects yields no field p of
\* kind 'array'; when the elements' values are scalars or null it yields
\* exactly one field p.k per key k of any element, holding the string forms
\* of the values at k of all elements.
C4ObjectArrayFlattened ==
    (xDone /\ (IsArray(xDoc) \/ IsKeyedArray(xDoc)) /\ IsObjectArray(ArrayOf(xDoc))) =>
        LET p == ArrayPathOf(xDoc)
            elems == Items(ArrayOf(xDoc))
            keys == UNION {EntryKeys(e) : e \in elems}
        IN /\ ~(MapHas(xFields, PathKey(p)) /\ MapGet(xFields, PathKey(p)).fieldType = "array")
           /\ (\A e \in elems : IsFlatObject(e)) =>
                 /\ MapKeys(xFields) = {JoinPath(p, k) : k \in keys}
                 /\ Len(xFields) = Cardinality(keys)
                 /\ \A k \in keys :
                       MapGet(xFields, JoinPath(p, k)).distinctValues =
                           {String(EntryValue(e, k)) : e \in {x \in elems : k \in EntryKeys(x)}}

\* two elements share a key with different values and one has a key of its own
C4Witness ==
    /\ xDone
    /\ IsKeyedArray(xDoc)
    /\ IsObjectArray(ArrayOf(xDoc))
    /\ \A e \in Items(ArrayOf(xDoc)) : IsFlatObject(e)
    /\ Len(ArrayOf(xDoc)[2]) = 2
    /\ Len(xFields) = 2
    /\ \E i \in DOMAIN xFields : Cardinality(xFields[i].val.distinctValues) = 2

\* C7: a flat object of scalars and nulls yields exactly one field per key, of
\* kind 'primitive', with exactly one value: the string form of the scalar,
\* "null" for a null.
C7FlatPrimitives ==
    (xDone /\ IsFlatObject(xDoc)) =>
        /\ MapKeys(xFields) = EntryKeys(xDoc)
        /\ Len(xFields) = Len(xDoc[2])
        /\ \A k \in EntryKeys(xDoc) :
              /\ MapGet(xFields, k).fieldType = "primitive"
              /\ MapGet(xFields, k).distinctValues =
                    {IF IsNull(EntryValue(xDoc, k)) THEN "null"
                     ELSE String(EntryValue(xDoc, k))}

\* a flat object with a null, a number and so two fields
C7Witness ==
    /\ xDone
    /\ IsFlatObject(xDoc)
    /\ \E k \in EntryKeys(xDoc) : IsNull(EntryValue(xDoc, k))
    /\ \E k \in EntryKeys(xDoc) : EntryValue(xDoc, k)[1] = "string"
    /\ Len(xFields) = 2

\* C8: under a config type other than 'default-config' the keys under
\* 'settings' keep their literal names; under 'default-config' a key is
\* replaced by {settingName} only when its parent path from the document root
\* is exactly 'settings'.
C8CollapsingScope ==
    xDone =>
        /\ (xType # "default-config" /\ IsSettingsDoc(xDoc)) =>
              \A k \in EntryKeys(EntryValue(xDoc, SettingsPath)) :
                  MapHas(xFields, SettingsPath \o k)
        /\ \A p \in MapKeys(xFields) :
              HasSegment(p, SettingName[1]) =>
                  /\ xType = "default-config"
                  /\ Len(p) >= 2
                  /\ p[1] = SettingsPath[1]
                  /\ p[2] = SettingName[1]

(***************************************************************************)
(* Vocabulary of the properties of the driver.                             *)
(***************************************************************************)
\* the documents of a store in the order the loops visit them
RECURSIVE FileDocuments(_, _)
FileDocuments(mod, files) ==
    IF files = <<>> THEN <<>>
    ELSE <<[modName |-> mod, filePath |-> Head(files).key, doc |-> Head(files).val]>>
             \o FileDocuments(mod, Tail(files))
RECURSIVE DocumentsOf(_, _)
DocumentsOf(store, multi) ==
    IF store = <<>> THEN <<>>
    ELSE (IF multi THEN FileDocuments(Head(store).key, Head(store).val)
          ELSE <<[modName |-> Head(store).key, filePath |-> "", doc |-> Head(store).val]>>)
         \o DocumentsOf(Tail(store), multi)

\* the fields a document contributes: none when the document is skipped
FieldsOf(doc, typeName) ==
    IF Truthy(doc) THEN extractFieldsFromJson(doc, typeName, EmptyPath) ELSE EmptyMap

\* the aggregate after the documents docs have been processed in this order
RECURSIVE MergeAllFields(_, _, _)
MergeAllFields(fam, fields, mod) ==
    IF fields = <<>> THEN fam
    ELSE MergeAllFields(MergeExtractedField(fam, Head(fields).key, Head(fields).val, mod),
                        Tail(fields), mod)
RECURSIVE AnalyzeDocuments(_, _, _)
AnalyzeDocuments(fam, docs, typeName) ==
    IF docs = <<>> THEN fam
    ELSE AnalyzeDocuments(MergeAllFields(fam, FieldsOf(Head(docs).doc, typeName),
                                         Head(docs).modName),
                          Tail(docs), typeName)

\* the same entries of a store in every order
Reorderings(store) ==
    {[i \in DOMAIN store |-> store[f[i]]] : f \in Permutations(DOMAIN store)}

\* how many documents of the current store the loops have started
StartedCount ==
    LET before == Len(DocumentsOf(SubSeq(configStore, 1, modIdx - 1), IsMulti))
    IN CASE pc = "mods" -> before
         [] pc = "files" -> before + (fileIdx - 1)
         [] pc = "fields" -> before + (IF IsMulti THEN fileIdx ELSE 1)
         [] OTHER -> 0
\* how many of them are merged completely
MergedCount == IF pc = "fields" THEN StartedCount - 1 ELSE StartedCount
CurrentDocuments == DocumentsOf(configStore, IsMulti)

UnionOfModValues(analysis) ==
    UNION {analysis.modValues[i].val : i \in DOMAIN analysis.modValues}

\* C2: in every state of the processing of a config type, after each single
\* merge of an extracted field, every field's distinctValues is the union of
\* its modValues over all mods recorded for the field.
C2UnionInvariant ==
    \A i \in DOMAIN fieldAnalysisMap :
        fieldAnalysisMap[i].val.distinctValues = UnionOfModValues(fieldAnalysisMap[i].val)

\* a field two mods have merged different values into, the loop still running
C2Witness ==
    /\ pc = "fields"
    /\ \E i \in DOMAIN fieldAnalysisMap :
          /\ Len(fieldAnalysisMap[i].val.modValues) = 2
          /\ fieldAnalysisMap[i].val.modValues[1].val # fieldAnalysisMap[i].val.modValues[2].val
          /\ Cardinality(fieldAnalysisMap[i].val.distinctValues) >= 2

\* C5: under a multi-document config type, once a mod's files are processed,
\* each field path of its files is one field of the aggregate whose value set
\* for that mod is the union of the values of all its files at that path, and
\* no field path contains a file path.
C5MultiDocumentAccumulation ==
    (pc = "mods" /\ IsMulti) =>
        /\ \A j \in 1..(modIdx - 1) :
              LET mod == configStore[j].key
                  files == configStore[j].val
                  fieldsOfFile(f) == FieldsOf(files[f].val, configTypeName)
              IN \A f \in DOMAIN files : \A path \in MapKeys(fieldsOfFile(f)) :
                    /\ Cardinality({i \in DOMAIN fieldAnalysisMap :
                                       fieldAnalysisMap[i].key = path}) = 1
                    /\ MapHas(MapGet(fieldAnalysisMap, path).modValues, mod)
                    /\ MapGet(MapGet(fieldAnalysisMap, path).modValues, mod) =
                          UNION {MapGet(fieldsOfFile(g), path).distinctValues :
                                    g \in {h \in DOMAIN files : MapHas(fieldsOfFile(h), path)}}
        /\ \A path \in MapKeys(fieldAnalysisMap) : \A file \in PlanetFiles :
              ~HasSegment(path, file)

\* a mod whose two files gave different values at the same path
C5Witness ==
    /\ pc = "mods"
    /\ IsMulti
    /\ \E j \in 1..(modIdx - 1) :
          /\ Len(configStore[j].val) = 2
          /\ \E i \in DOMAIN fieldAnalysisMap :
                /\ MapHas(FieldsOf(configStore[j].val[1].val, configTypeName), fieldAnalysisMap[i].key)
                /\ MapHas(FieldsOf(configStore[j].val[2].val, configTypeName), fieldAnalysisMap[i].key)
                /\ MapHas(fieldAnalysisMap[i].val.modValues, configStore[j].key)
                /\ Cardinality(MapGet(fieldAnalysisMap[i].val.modValues, configStore[j].key)) = 2

\* C6: the summaries persisted for a config type are the same, orderings
\* included, in whatever order the entries of its store are processed.
C6OrderIndependent ==
    \A t \in ConfigTypeNames :
        persisted[t].written =>
            \A store \in Reorderings(ctx[t]) :
                persisted[t] = writeAnalysisSummaries(
                    AnalyzeDocuments(EmptyMap, DocumentsOf(store, t \in MultiTypes), t))

\* the mods named anywhere in the summaries of a config type
SummaryMods(summaries) ==
    MapKeys(summaries.perModSummary)
    \cup UNION {{summaries.perFieldSummary[i].val.mods[j].modName :
                    j \in DOMAIN summaries.perFieldSummary[i].val.mods} :
                i \in DOMAIN summaries.perFieldSummary}
\* a document that is absent or the empty object
IsAbsentOrEmpty(doc) == doc \in FalsyLeaves \/ doc = Obj(<<>>)

\* C9: a mod whose documents are all absent or the empty object adds nothing:
\* it is named in neither summary, and every field of the summaries comes
\* from a document that is present.
C9AbsentAndEmptySkipped ==
    \A t \in ConfigTypeNames :
        persisted[t].written =>
            LET docs == DocumentsOf(ctx[t], t \in MultiTypes)
                present == {i \in DOMAIN docs : ~IsAbsentOrEmpty(docs[i].doc)}
            IN /\ SummaryMods(persisted[t]) \subseteq {docs[i].modName : i \in present}
               /\ MapKeys(persisted[t].perFieldSummary) \subseteq
                     UNION {MapKeys(extractFieldsFromJson(docs[i].doc, t, EmptyPath)) :
                               i \in present}

\* a mod with an absent file and an empty file next to a mod that contributes
C9Witness ==
    \E t \in MultiTypes :
        /\ persisted[t].written
        /\ Len(ctx[t]) = 2
        /\ \E j \in DOMAIN ctx[t] :
              /\ Len(ctx[t][j].val) = 2
              /\ \E f \in DOMAIN ctx[t][j].val : ctx[t][j].val[f].val \in FalsyLeaves
              /\ \E f \in DOMAIN ctx[t][j].val : ctx[t][j].val[f].val = Obj(<<>>)
        /\ Cardinality(SummaryMods(persisted[t])) = 1

\* C10: the kind of a field of the aggregate is the kind of the first
\* extraction that mentioned its path, whatever is merged later, and the
\* values of every merged document are in the field's value sets whatever
\* kind the document gave the path.
C10FirstKindWins ==
    (pc \in {"mods", "files", "fields"}) =>
        LET docs == CurrentDocuments
            fields(i) == FieldsOf(docs[i].doc, configTypeName)
        IN /\ \A path \in MapKeys(fieldAnalysisMap) :
                 LET mentioning == {i \in 1..StartedCount : MapHas(fields(i), path)}
                 IN /\ mentioning # {}
                    /\ LET first == CHOOSE i \in mentioning : \A k \in mentioning : i <= k
                       IN MapGet(fieldAnalysisMap, path).fieldType =
                              MapGet(fields(first), path).fieldType
           /\ \A i \in 1..MergedCount : \A path \in MapKeys(fields(i)) :
                 /\ MapHas(fieldAnalysisMap, path)
                 /\ MapGet(fields(i), path).distinctValues \subseteq
                       MapGet(fieldAnalysisMap, path).distinctValues
                 /\ MapGet(fields(i), path).distinctValues \subseteq
                       MapGet(MapGet(fieldAnalysisMap, path).modValues, docs[i].modName)

\* a later document gave the path another kind and its values were merged
C10Witness ==
    /\ pc \in {"mods", "files"}
    /\ MergedCount >= 2
    /\ \E path \in MapKeys(fieldAnalysisMap) :
          LET last == FieldsOf(CurrentDocuments[MergedCount].doc, configTypeName)
          IN /\ MapHas(last, path)
             /\ MapGet(last, path).fieldType # MapGet(fieldAnalysisMap, path).fieldType
             /\ MapGet(last, path).distinctValues \subseteq
                   MapGet(fieldAnalysisMap, path).distinctValues
             /\ MapGet(last, path).distinctValues # MapGet(fieldAnalysisMap, path).distinctValues

(***************************************************************************)
(* Null values and arrays in the extraction.                               *)
(***************************************************************************)
\* the last entry of a non-empty object
LastKey(o) == o[2][Len(o[2])][1]
LastValue(o) == o[2][Len(o[2])][2]
EndsWithNull(o) == IsObject(o) /\ o[2] # <<>> /\ IsNull(LastValue(o))
\* an object of one entry whose value is an object
IsKeyedObject(d) == IsObject(d) /\ Len(d[2]) = 1 /\ IsObject(d[2][1][2])
\* the entries of a map at a key
EntriesAt(m, k) == {i \in DOMAIN m : m[i].key = k}
NullEntry == NewFieldAnalysis({"null"}, "primitive")

HoldsArray(d) == IsArray(d) \/ IsKeyedArray(d)
\* the string forms of the elements that are not null
NonNullForms(a) == {String(e) : e \in {x \in Items(a) : ~IsNull(x)}}
\* exactly one entry of kind 'array' at the array's path, with these values
HasArrayEntry(d) ==
    LET k == PathKey(ArrayPathOf(d))
    IN /\ Cardinality(EntriesAt(xFields, k)) = 1
       /\ MapGet(xFields, k).fieldType = "array"
       /\ MapGet(xFields, k).distinctValues = NonNullForms(ArrayOf(d))

ValuesAscend(vs) == \A i \in 1..(Len(vs) - 1) : ValueLess(vs[i], vs[i + 1])
\* rows in strictly increasing order of their field paths, of their mod names
PathsAscend(rows) ==
    \A i \in 1..(Len(rows) - 1) : PathLess(rows[i].fieldPath, rows[i + 1].fieldPath)
ModsAscend(rows) ==
    \A i \in 1..(Len(rows) - 1) : ModLess(rows[i].modName, rows[i + 1].modName)
\* the config types whose summaries are written
WrittenTypes == {t \in ConfigTypeNames : persisted[t].written}

\* C13: in the persisted per-mod summary each mod's rows are in increasing
\* order of field path with no path twice and each row's values are sorted
\* without duplicates; in the per-field summary each field's mod rows are in
\* increasing order of mod name with no mod twice, and each mod's values and
\* the field's distinct values are sorted without duplicates.
C13SortedSummaries ==
    \A t \in WrittenTypes :
        /\ \A i \in DOMAIN persisted[t].perModSummary :
              LET rows == persisted[t].perModSummary[i].val
              IN /\ PathsAscend(rows)
                 /\ \A r \in DOMAIN rows : ValuesAscend(rows[r].values)
        /\ \A i \in DOMAIN persisted[t].perFieldSummary :
              LET field == persisted[t].perFieldSummary[i].val
              IN /\ ModsAscend(field.mods)
                 /\ \A r \in DOMAIN field.mods : ValuesAscend(field.mods[r].values)
                 /\ ValuesAscend(field.distinctValues)

\* summaries written from an aggregate whose fields and mods were met in
\* descending order: a mod with two rows, a field with two mods
C13Witness ==
    \E t \in WrittenTypes :
        /\ Len(ctx[t]) = 2
        /\ ModLess(ctx[t][2].key, ctx[t][1].key)
        /\ \E i \in DOMAIN persisted[t].perModSummary :
              Len(persisted[t].perModSummary[i].val) = 2
        /\ \E i \in DOMAIN persisted[t].perFieldSummary :
              /\ Len(persisted[t].perFieldSummary[i].val.mods) = 2
              /\ Len(persisted[t].perFieldSummary[i].val.distinctValues) = 2
        /\ Len(fieldAnalysisMap) = 2
        /\ PathLess(fieldAnalysisMap[2].key, fieldAnalysisMap[1].key)

\* C14: every row of a persisted per-mod summary and every mod row of a
\* persisted per-field summary has a non-empty values list; no extracted
\* field waiting to be merged has an empty value set, and no mod recorded for
\* a field of the aggregate has an empty value set.
C14NonEmptyRows ==
    /\ \A i \in DOMAIN modFields : modFields[i].val.distinctValues # {}
    /\ \A i \in DOMAIN fieldAnalysisMap :
          \A j \in DOMAIN fieldAnalysisMap[i].val.modValues :
              fieldAnalysisMap[i].val.modValues[j].val # {}
    /\ \A t \in WrittenTypes :
          /\ \A i \in DOMAIN persisted[t].perModSummary :
                \A r \in DOMAIN persisted[t].perModSummary[i].val :
                    persisted[t].perModSummary[i].val[r].values # <<>>
          /\ \A i \in DOMAIN persisted[t].perFieldSummary :
                \A r \in DOMAIN persisted[t].perFieldSummary[i].val.mods :
                    persisted[t].perFieldSummary[i].val.mods[r].values # <<>>

\* a mod whose document holds an array of nulls only is listed nowhere, next
\* to a mod that is listed with its values
C14Witness ==
    \E t \in WrittenTypes \cap SingleTypes :
        /\ Len(ctx[t]) = 2
        /\ \E j \in DOMAIN ctx[t] : ctx[t][j].val = Obj(<< <<(<<"a">>), Arr(<<Null>>)>> >>)
        /\ Len(persisted[t].perModSummary) = 1
        /\ persisted[t].perModSummary[1].val # <<>>
        /\ Len(persisted[t].perFieldSummary) = 1
        /\ Len(persisted[t].perFieldSummary[1].val.mods) = 1

(***************************************************************************)
(* The merge as an operation on the aggregate.                             *)
(***************************************************************************)
\* the aggregate after the fields of document i of the current store are
\* merged into it once more
MergedAgain(i) ==
    MergeAllFields(fieldAnalysisMap,
                   FieldsOf(CurrentDocuments[i].doc, configTypeName),
                   CurrentDocuments[i].modName)

\* C15: merging the extraction result of a document already merged, for the
\* same mod, a second time leaves the aggregate (its fields and their order,
\* kinds, per-mod value sets and distinct values) exactly as it was, right
\* after the first merge and after any later merges.
C15MergeIdempotent ==
    (pc \in {"mods", "files", "fields"}) =>
        \A i \in 1..MergedCount : MergedAgain(i) = fieldAnalysisMap

\* two documents merged that gave the same path different values
C15Witness ==
    /\ pc \in {"mods", "files"}
    /\ MergedCount = 2
    /\ \E path \in MapKeys(fieldAnalysisMap) :
          LET d1 == FieldsOf(CurrentDocuments[1].doc, configTypeName)
              d2 == FieldsOf(CurrentDocuments[2].doc, configTypeName)
          IN /\ MapHas(d1, path) /\ MapHas(d2, path)
             /\ MapGet(d1, path).distinctValues # MapGet(d2, path).distinctValues
             /\ MapGet(d1, path).fieldType # MapGet(d2, path).fieldType
    /\ MergedAgain(1) = fieldAnalysisMap

\* one merge step kept everything that was in the aggregate: no field and no
\* value removed, the sets of the other mods and the fields at other paths
\* as they were, and at most the merged path added
MergeKeepsProvenance ==
    LET path == Head(modFields).key
    IN /\ Len(fieldAnalysisMap') >= Len(fieldAnalysisMap)
       /\ \A i \in DOMAIN fieldAnalysisMap' :
             i > Len(fieldAnalysisMap) => fieldAnalysisMap'[i].key = path
       /\ \A i \in DOMAIN fieldAnalysisMap :
             LET old == fieldAnalysisMap[i]
                 new == fieldAnalysisMap'[i]
             IN /\ new.key = old.key
                /\ old.key # path => new = old
                /\ old.val.distinctValues \subseteq new.val.distinctValues
                /\ Len(new.val.modValues) >= Len(old.val.modValues)
                /\ \A j \in DOMAIN old.val.modValues :
                      /\ new.val.modValues[j].key = old.val.modValues[j].key
                      /\ old.val.modValues[j].val \subseteq new.val.modValues[j].val
                      /\ old.val.modValues[j].key # modName =>
                            new.val.modValues[j].val = old.val.modValues[j].val

\* the set of each mod in each field is the union of the values extracted at
\* the field's path from the mod's documents, and a mod none of whose
\* documents has the path is not recorded for the field
ModValuesAreUnions ==
    LET docs == CurrentDocuments
        fields(d) == FieldsOf(docs[d].doc, configTypeName)
    IN /\ \A d \in DOMAIN docs : MapKeys(fields(d)) \subseteq MapKeys(fieldAnalysisMap)
       /\ \A i \in DOMAIN fieldAnalysisMap : \A e \in Mods :
             LET path == fieldAnalysisMap[i].key
                 from == {d \in DOMAIN docs : docs[d].modName = e /\ MapHas(fields(d), path)}
             IN IF from = {}
                THEN ~MapHas(fieldAnalysisMap[i].val.modValues, e)
                ELSE /\ MapHas(fieldAnalysisMap[i].val.modValues, e)
                     /\ MapGet(fieldAnalysisMap[i].val.modValues, e) =
                           UNION {MapGet(fields(d), path).distinctValues : d \in from}

\* the loops of the config type are over, its summaries not written yet
AtEndOfLoops == pc = "mods" /\ modIdx > Len(configStore)

\* C16: every merge of an extracted field of a document of mod e removes no
\* value and no field, leaves the value sets of every other mod and every
\* field at another path as they were; when the loops of a config type are
\* over, the set of each mod in each field is exactly the union of the values
\* extracted at that path from the mod's documents.
C16ProvenancePreserved ==
    [][/\ (pc = "fields" /\ modFields # <<>>) => MergeKeepsProvenance
       /\ AtEndOfLoops => ModValuesAreUnions]_vars

\* at the end of the loops of a multi-document type: a field with two mods,
\* one of them with the values of two files, the other with another set
C16Witness ==
    /\ AtEndOfLoops
    /\ IsMulti
    /\ \E i \in DOMAIN fieldAnalysisMap :
          LET mv == fieldAnalysisMap[i].val.modValues
          IN /\ Len(mv) = 2
             /\ Cardinality(mv[1].val) = 2
             /\ Cardinality(mv[2].val) = 1
             /\ Len(configStore[1].val) = 2
             /\ \A f \in 1..2 : Truthy(configStore[1].val[f].val)

(***************************************************************************)
(* The report.                                                             *)
(***************************************************************************)
\* C20: when generateHtmlReport has run, index.html is written whatever
\* per-field summaries were absent or unreadable, and it shows exactly the
\* config types whose summary was persisted and could be read.
C20ReportTolerant ==
    pc = "done" =>
        /\ report.written
        /\ report.configTypes = {t \in ConfigTypeNames : persisted[t].written} \ unreadable

\* two summaries could not be read: the report shows the four others
C20Witness ==
    /\ pc = "done"
    /\ unreadable = {"planets", "systems"}
    /\ report.written
    /\ report.configTypes = {"manifest", "title-screen", "addon-manifest", "default-config"}

(***************************************************************************)
(* The main script.                                                        *)
(***************************************************************************)
\* the mod's repository has a manifest.json
HasManifestRepo(mod) == github[mod].repo /\ MapHas(github[mod].tree, ManifestFile)
\* no request for the mod failed
NoErrorLogged(mod) == [mod |-> mod, message |-> "Error processing mod"] \notin log
\* the manifest and every config of the mod's repository are in the context
ConfigsPresent(mod) ==
    LET tree == github[mod].tree
        downloads == Downloads(tree)
    IN /\ MapHas(ctx["manifest"], mod)
       /\ MapGet(ctx["manifest"], mod) = MapGet(tree, ManifestFile)
       /\ \A i \in DOMAIN downloads :
             LET d == downloads[i]
             IN /\ MapHas(ctx[d.store], mod)
                /\ IF d.file.dir = ""
                   THEN MapGet(ctx[d.store], mod) = MapGet(tree, d.file)
                   ELSE \E f \in DOMAIN MapGet(ctx[d.store], mod) :
                           MapGet(ctx[d.store], mod)[f].val = MapGet(tree, d.file)

\* C17: with SKIP_LOCAL_CACHE=true (and the fetch not switched off), once the
\* fetch is over every mod of the database that has a repo with a manifest,
\* is not kept out by MOD_ALLOW_LIST and had no request fail has its manifest
\* and all its configs in the analysis context, whatever mod-cache holds.
C17FreshFetch ==
    (pcMain = "analysis" /\ env.skipLocalCache /\ ~env.localCacheOnly) =>
        \A mod \in Mods :
            (HasManifestRepo(mod) /\ IsAllowed(env, mod) /\ NoErrorLogged(mod)) =>
                ConfigsPresent(mod)

\* the stages of the main script in their order
StageRank(stage) ==
    CASE stage = "start" -> 0
      [] stage = "cache" -> 1
      [] stage = "loaded" -> 2
      [] stage = "github" -> 3
      [] stage = "analysis" -> 4
      [] OTHER -> 5
\* the step is a step of the analysis
AnalysisStep == avars' # avars
\* the step is a step of the cache load, of the GitHub fetch
CacheLoadStep == pcMain = "cache" \/ pcMain' = "cache"
GitHubFetchStep == pcMain = "github" \/ pcMain' = "github"

\* C18: the script never goes back to an earlier stage; the context and
\* mod-cache change only during the cache load and the fetch; the fetch is
\* entered only when the cache load has gone through every cached mod (or
\* was skipped under SKIP_LOCAL_CACHE); every step of the analysis comes
\* after the fetch has gone through every mod of the database (or was
\* skipped under LOCAL_CACHE_ONLY); no step of the cache load is taken under
\* SKIP_LOCAL_CACHE=true and no step of the fetch under LOCAL_CACHE_ONLY=true.
C18PipelineOrder ==
    [][/\ StageRank(pcMain') >= StageRank(pcMain)
       /\ (ctx' # ctx \/ modCache' # modCache) =>
              pcMain \in {"cache", "github"} /\ pcMain' = pcMain
       /\ cacheIdx' # cacheIdx => pcMain = "cache"
       /\ (dbIdx' # dbIdx \/ log' # log) => pcMain = "github"
       /\ (pcMain' = "loaded" /\ pcMain # "loaded") =>
              IF env.skipLocalCache THEN pcMain = "start"
              ELSE pcMain = "cache" /\ cacheIdx > Len(ReadDir(modCache))
       /\ GitHubFetchStep => StageRank(pcMain) >= StageRank("loaded")
       /\ (pcMain' = "analysis" /\ pcMain # "analysis") =>
              IF env.localCacheOnly THEN pcMain = "loaded"
              ELSE pcMain = "github" /\ dbIdx > Len(ModDB)
       /\ AnalysisStep => pcMain = "analysis" /\ pcMain' = "analysis"
       /\ CacheLoadStep => ~env.skipLocalCache
       /\ GitHubFetchStep => ~env.localCacheOnly]_vars

\* the analysis under way after a cache load that loaded a mod and a fetch
\* that fetched another
C18Witness ==
    /\ pcMain = "analysis"
    /\ pc = "fields"
    /\ ~env.skipLocalCache
    /\ ~env.localCacheOnly
    /\ cacheIdx = 2
    /\ dbIdx = Len(ModDB) + 1
    /\ Len(modCache) = 2
    /\ Len(ctx["manifest"]) = 2

\* the entries of a store for the mods that are not on the allow list
UnlistedEntries(store) == SelectSeq(store, LAMBDA entry : entry.key \notin env.allowList.mods)

\* C19: when MOD_ALLOW_LIST is set, no step of the GitHub fetch changes, adds
\* or removes the entry of a mod that is not on the list in any of the six
\* stores: the entries stay as the cache load left them.
C19UnlistedUntouched ==
    [][(pcMain = "github" /\ env.allowList.set) =>
           \A t \in ConfigTypeNames : UnlistedEntries(ctx'[t]) = UnlistedEntries(ctx[t])]_vars

\* the fetch is over: the listed mod has the newer version from GitHub, the
\* other mod, whose repository has a newer version too, the cached one
C19Witness ==
    /\ pcMain = "analysis"
    /\ env.allowList = AllowList({"Alek.OWML"})
    /\ github["xen.NewHorizons"] = RepoOf(TreeV2)
    /\ MapHas(ctx["manifest"], "xen.NewHorizons")
    /\ MapGet(ctx["manifest"], "xen.NewHorizons") = Manifest("1.0.0")
    /\ MapHas(ctx["title-screen"], "xen.NewHorizons")
    /\ MapHas(ctx["manifest"], "Alek.OWML")
    /\ MapGet(ctx["manifest"], "Alek.OWML") = Manifest("2.0.0")
    /\ MapHas(ctx["systems"], "Alek.OWML")

(***************************************************************************)
(* The order of the analysis: aggregate, summaries, report.                *)
(***************************************************************************)
\* the aggregate of all the documents of a store
FinishedAggregate(typeName) ==
    AnalyzeDocuments(EmptyMap, DocumentsOf(ctx[typeName], typeName \in MultiTypes), typeName)
\* a step that writes summary files writes those of the config type the
\* loops are at, from the aggregate of all its documents, the loops over
\* them at their end
PersistsFinishedAggregate ==
    persisted' # persisted =>
        /\ pc = "mods" /\ modIdx > Len(configStore) /\ modFields = <<>>
        /\ fieldAnalysisMap = FinishedAggregate(configTypeName)
        /\ fieldAnalysisMap' = fieldAnalysisMap
        /\ ~persisted[configTypeName].written
        /\ persisted'[configTypeName].written
        /\ persisted'[configTypeName].perModSummary = buildPerModSummaries(fieldAnalysisMap)
        /\ persisted'[configTypeName].perFieldSummary = buildPerFieldSummaries(fieldAnalysisMap)
        /\ \A t \in ConfigTypeNames \ {configTypeName} : persisted'[t] = persisted[t]
\* an aggregate changes only before its summaries are written; the change
\* after them is the new, empty aggregate of the next config type
AggregateFrozenOncePersisted ==
    fieldAnalysisMap' # fieldAnalysisMap =>
        /\ ~persisted[configTypeName].written
        /\ ~persisted'[configTypeName].written
\* the report is written with the summaries of all six config types there
ReportAfterAllSummaries ==
    report' # report => \A t \in ConfigTypeNames : persisted[t].written

\* C21: for each config type both summaries are built and persisted only
\* after every document of every entity of that type has been extracted and
\* merged (they are the summaries of the finished aggregate), the aggregate
\* is not changed once its summaries are persisted, and the HTML report is
\* generated only after the summaries of all six config types are persisted.
C21FinishedAggregate ==
    [][/\ PersistsFinishedAggregate
       /\ AggregateFrozenOncePersisted
       /\ ReportAfterAllSummaries]_vars

\* the report written, the summaries of a store of two mods among those
\* persisted before it
C21Witness ==
    /\ pc = "done"
    /\ report.written
    /\ \A t \in ConfigTypeNames : persisted[t].written
    /\ \E t \in ConfigTypeNames :
          /\ Len(ctx[t]) = 2
          /\ Len(persisted[t].perFieldSummary) >= 1
          /\ \E i \in DOMAIN persisted[t].perFieldSummary :
                Len(persisted[t].perFieldSummary[i].val.mods) = 2

(***************************************************************************)
(* What the extraction keeps of a document.                                *)
(***************************************************************************)
\* the string forms of the non-null scalars of a value, at every depth
RECURSIVE ScalarForms(_)
ScalarForms(v) ==
    CASE IsNull(v) -> {}
      [] IsArray(v) -> UNION {ScalarForms(v[2][i]) : i \in DOMAIN v[2]}
      [] IsObject(v) -> UNION {ScalarForms(v[2][i][2]) : i \in DOMAIN v[2]}
      [] OTHER -> {String(v)}
\* the values of all the fields of an extracted map
ExtractedValues(m) == UNION {m[i].val.distinctValues : i \in DOMAIN m}

\* C22: every non-null scalar value occurring at any depth of a document,
\* also inside an array nested in an array and under keys whose computed
\* paths coincide, appears in string form in the value set of some field
\* extractFieldsFromJson returns for the document.
C22NoValueLost ==
    xDone => ScalarForms(xDoc) \subseteq ExtractedValues(xFields)

(***************************************************************************)
(* The two summaries of a config type against each other.                  *)
(***************************************************************************)
ElementsOf(s) == {s[i] : i \in DOMAIN s}
\* (mod, field path, kind, value list) of every row of a per-mod summary
PerModRows(perModSummary) ==
    UNION {{<<perModSummary[i].key, r.fieldPath, r.fieldType, r.values>> :
                r \in ElementsOf(perModSummary[i].val)} : i \in DOMAIN perModSummary}
\* the same of every row of a per-field summary
PerFieldRows(perFieldSummary) ==
    UNION {{<<r.modName, perFieldSummary[i].key, perFieldSummary[i].val.fieldType, r.values>> :
                r \in ElementsOf(perFieldSummary[i].val.mods)} : i \in DOMAIN perFieldSummary}
\* one row per mod and field path
OneRowEach(rows) == \A a, b \in rows : (a[1] = b[1] /\ a[2] = b[2]) => a = b
\* a field's distinct values are the values of its rows
DistinctAreUnion(field) ==
    ElementsOf(field.distinctValues) =
        UNION {ElementsOf(r.values) : r \in ElementsOf(field.mods)}

\* C23: in the persisted summaries of a config type, mod e has a row for
\* field path p in the per-mod summary exactly if p has a row for e in the
\* per-field summary, the two rows carry the same value list and the same
\* kind, and the field's distinct-value list is the union of the values of
\* its mod rows.
C23SummariesAgree ==
    \A t \in ConfigTypeNames :
        persisted[t].written =>
            /\ PerModRows(persisted[t].perModSummary) = PerFieldRows(persisted[t].perFieldSummary)
            /\ OneRowEach(PerModRows(persisted[t].perModSummary))
            /\ \A i \in DOMAIN persisted[t].perFieldSummary :
                  DistinctAreUnion(persisted[t].perFieldSummary[i].val)

\* summaries persisted with a field two mods use with different values
C23Witness ==
    \E t \in ConfigTypeNames :
        /\ persisted[t].written
        /\ \E i \in DOMAIN persisted[t].perFieldSummary :
              LET mods == persisted[t].perFieldSummary[i].val.mods
              IN /\ Len(mods) = 2
                 /\ mods[1].values # mods[2].values
        /\ Len(persisted[t].perModSummary) = 2

(***************************************************************************)
(* What the fetch takes for a cached version.                              *)
(***************************************************************************)
\* the files of the version a repository holds: the manifest and the files
\* fetched after it
VersionFiles(tree) ==
    {ManifestFile} \cup {Downloads(tree)[i].file : i \in DOMAIN Downloads(tree)}
\* the files the directory of a version of a mod holds in mod-cache
CachedFiles(cache, mod, version) ==
    IF Exists(cache, mod, version)
    THEN MapKeys(MapGet(MapGet(cache, mod).versions, version))
    ELSE {}
RepoVersion(mod) == VersionOf(MapGet(github[mod].tree, ManifestFile))
SkippedAsCached(mod) == [mod |-> mod, message |-> "is already cached, skipping"] \in log

\* C24: a version directory under mod-cache is treated as already cached
\* only when all files of that version (manifest, metadata files, planet
\* and system configs) were written to it; a version whose fetch failed
\* after it had started writing is fetched again by a later run.
C24CachedVersionComplete ==
    \A mod \in Mods :
        SkippedAsCached(mod) =>
            VersionFiles(github[mod].tree) \subseteq CachedFiles(modCache, mod, RepoVersion(mod))

(***************************************************************************)
(* The versions the entries of the context come from.                      *)
(***************************************************************************)
\* the files of the version of a mod that its manifest in the context names
ManifestVersionFiles(mod) ==
    LET version == VersionOf(MapGet(ctx["manifest"], mod))
    IN IF Exists(modCache, mod, version)
       THEN MapGet(MapGet(modCache, mod).versions, version)
       ELSE EmptyMap
\* the document of a metadata store is the version's file of that store
MetadataFromVersion(mod, files) ==
    \A i \in DOMAIN MetadataFileConfigs :
        LET store == MetadataFileConfigs[i].store
            file == File("", MetadataFileConfigs[i].name)
        IN MapHas(ctx[store], mod) =>
               MapHas(files, file) /\ MapGet(files, file) = MapGet(ctx[store], mod)
\* every config file of the mod in a store is a file of the version, under
\* the relative path either loader gives it
ConfigsFromVersion(mod, files) ==
    \A d \in DOMAIN ConfigDirectories :
        LET store == ConfigDirectories[d]
            entries == IF MapHas(ctx[store], mod) THEN MapGet(ctx[store], mod) ELSE <<>>
        IN \A i \in DOMAIN entries :
               \E j \in DOMAIN files :
                   /\ files[j].key.dir = store
                   /\ entries[i].key \in {GitHubRelativePath(files[j].key),
                                         CacheRelativePath(files[j].key)}
                   /\ entries[i].val = files[j].val
AfterLoadAndFetch ==
    /\ pcMain = "analysis"
    /\ RunsCacheLoad(env)
    /\ RunsGitHubFetch(env)

\* C25: after the cache load followed by the GitHub fetch, all store
\* entries of a mod (manifest, title-screen, addon-manifest, default-config,
\* planet files, system files) come from one and the same version of the
\* mod, the one its manifest names; no document of an older cached version
\* remains once a newer version has been fetched.
C25VersionConsistent ==
    AfterLoadAndFetch =>
        \A mod \in Mods :
            IF MapHas(ctx["manifest"], mod)
            THEN /\ MetadataFromVersion(mod, ManifestVersionFiles(mod))
                 /\ ConfigsFromVersion(mod, ManifestVersionFiles(mod))
            ELSE \A t \in ConfigTypeNames : ~MapHas(ctx[t], mod)

====
